---- MODULE Spec2Model ----
(***************************************************************************)
(* The HyperGrid environment of gfn/envs/hypergrid.py (class HyperGrid,   *)
(* lines 134-298, and its nested StatesBatch), with the drivers that call *)
(* it: a forward sampler, a backward sampler, a round-trip sampler, the   *)
(* __main__ demo of lines 301-341, a driver of the read-only queries, and *)
(* two drivers that follow one trajectory from its start, forward (keeping *)
(* what an earlier call returned) and backward.                            *)
(*                                                                         *)
(* Indices are 0-based as in the source: a batch is a function on         *)
(* 0..n_envs-1, a state vector a function on 0..ndim-1, a forward mask a  *)
(* function on 0..n_actions-1.                                            *)
(***************************************************************************)
EXTENDS Integers, FiniteSets, Sequences, TLC

VARIABLES
    env,      \* the HyperGrid instance: its configuration fields
    _state,   \* env._state, the batch the environment owns (StatesBatch)
    states,   \* the driver's variable `states`: the batch it holds
    dones,    \* the driver's variable `dones`
    call,     \* the last call made on the environment: arguments and outcome
    driver,   \* which driver runs
    pc,       \* the driver's position
    path,     \* round-trip driver: the forward calls still to be undone
    held,     \* whether the objects `states` and `dones` name are the
              \* environment's own objects or objects of the driver's own
    n_calls,  \* trajectory drivers: the calls that have returned so far
    start     \* backward trajectory driver: the batch it began with

vars == <<env, _state, states, dones, call, driver, pc, path, held, n_calls, start>>

----------------------------------------------------------------------------
(* Configuration                                                           *)

\* HyperGrid.ndim's default, the dimension every driver uses.
ndim == 2

\* The demo's HyperGrid(n_envs=3, height=3).
DemoNEnvs == 3
DemoHeight == 3

\* Largest grid height the free drivers construct (heights 2..MaxHeight).
MaxHeight == 3

\* Batch sizes the free drivers construct.
BatchShapes == {1, 2}

\* The out-of-range action values the demo feeds to done elements.
BadIndex == 43
OtherBadIndex == 34

\* HyperGrid.__post_init__: the derived fields.
HyperGrid(n_envs, d, height) ==
    [ndim |-> d, height |-> height, n_envs |-> n_envs,
     state_shape |-> <<d>>, n_actions |-> d + 1, n_states |-> height ^ d]

Envs(e) == 0 .. e.n_envs - 1
Dims(e) == 0 .. e.ndim - 1

\* All raw state tensors of shape (n_envs, ndim) with entries in [0, height):
\* the values torch.randint(0, height, shape) can produce.
randint(e) == [Envs(e) -> [Dims(e) -> 0 .. e.height - 1]]

\* torch.zeros(shape)
zeros(e) == [i \in Envs(e) |-> [d \in Dims(e) |-> 0]]

----------------------------------------------------------------------------
(* StatesBatch                                                             *)

\* The bound off by one: states == height.
make_masks_off_by_one(e, st) ==
    [i \in DOMAIN st |->
        [a \in 0 .. e.n_actions - 1 |->
            IF a < e.ndim THEN ~(st[i][a] = e.height) ELSE TRUE]]

\* The blanking forgotten: the all-ones tensor as built.
make_masks_all_ones(e, st) ==
    [i \in DOMAIN st |-> [a \in 0 .. e.n_actions - 1 |-> TRUE]]

\* The increments blanked one cell early: states == height - 2.
make_masks_one_short(e, st) ==
    [i \in DOMAIN st |->
        [a \in 0 .. e.n_actions - 1 |->
            IF a < e.ndim THEN ~(st[i][a] = e.height - 2) ELSE TRUE]]

\* states == height - 1 blanks the increment columns; the stop column
\* (concatenated zeros) is never blanked.
make_masks(e, st) ==
    [i \in DOMAIN st |->
        [a \in 0 .. e.n_actions - 1 |->
            IF a < e.ndim THEN ~(st[i][a] = e.height - 1) ELSE TRUE]]

\* The blanking forgotten: the all-ones tensor as built.
make_backward_masks_all_ones(e, st) ==
    [i \in DOMAIN st |-> [a \in 0 .. e.n_actions - 2 |-> TRUE]]

\* masks[states == 0] = False on an all-ones (n_envs, n_actions - 1) tensor.
make_backward_masks(e, st) ==
    [i \in DOMAIN st |->
        [a \in 0 .. e.n_actions - 2 |-> ~(st[i][a] = 0)]]

\* AbstractStatesBatch.update_masks: both masks recomputed from the states.
update_masks(e, b) ==
    [b EXCEPT !.masks = make_masks(e, b.states),
              !.backward_masks = make_backward_masks(e, b.states)]

\* StatesBatch(states=st): the base class's __post_init__ builds the masks
\* and starts every element not done.
StatesBatch(e, st) ==
    update_masks(e, [states |-> st,
                     masks |-> [i \in DOMAIN st |-> <<>>],
                     backward_masks |-> [i \in DOMAIN st |-> <<>>],
                     already_dones |-> [i \in DOMAIN st |-> FALSE]])

RECURSIVE SumUpTo(_, _)
\* v[0] + ... + v[k]
SumUpTo(v, k) == IF k < 0 THEN 0 ELSE v[k] + SumUpTo(v, k - 1)

\* The sum reduced to the first coordinate.
first_coordinate(e, v) == v[0]

\* states.sum(-1)
sum(e, v) == SumUpTo(v, e.ndim - 1)

\* The comparison inverted: states.sum(-1) != 0.
update_the_dones_nonzero(e, b) ==
    [b EXCEPT !.already_dones = [i \in DOMAIN b.states |-> sum(e, b.states[i]) # 0]]

\* self.already_dones = states.sum(-1) == 0
update_the_dones(e, b) ==
    [b EXCEPT !.already_dones = [i \in DOMAIN b.states |-> sum(e, b.states[i]) = 0]]

\* AbstractStatesBatch.zero_the_dones: every done flag cleared, nothing else.
zero_the_dones(e, b) ==
    [b EXCEPT !.already_dones = [i \in DOMAIN b.states |-> FALSE]]

\* copy.deepcopy: a value equal to its argument that shares nothing with it.
deepcopy(b) == b

----------------------------------------------------------------------------
(* step and backward_step                                                  *)

\* What a call that raised hands back: nothing.
NoBatch == [states |-> <<>>, masks |-> <<>>, backward_masks |-> <<>>,
            already_dones |-> <<>>]
NoDones == <<>>

\* The selection dropped: every row, done or not.
every_row(e, b) == Envs(e)

\* The rows ~already_dones selects.
not_done(e, b) == {i \in Envs(e) : ~b.already_dones[i]}

\* torch.gather(masks[rows], 1, actions[rows].unsqueeze(1)): the mask entry
\* each selected row's action names; an index outside the mask's columns
\* raises RuntimeError.
gather(masks, rows, actions) ==
    [raised |-> \E i \in rows : actions[i] \notin DOMAIN masks[i],
     out |-> [i \in rows |->
                IF actions[i] \in DOMAIN masks[i] THEN masks[i][actions[i]]
                ELSE FALSE]]

\* all() mistaken for any(): one permitted row is enough.
any_row(g) == \E i \in DOMAIN g : g[i]

\* The builtin all() over the gathered rows.
all(g) == \A i \in DOMAIN g : g[i]

\* actions == self.n_actions - 1
is_exit(e, a) == a = e.n_actions - 1

\* The increment applied twice.
increment_twice(row, a) == [row EXCEPT ![a] = @ + 2]

\* row[action] += 1
increment(row, a) == [row EXCEPT ![a] = @ + 1]

\* The decrement applied to the first coordinate whatever the action.
decrement_first(row, a) == [row EXCEPT ![0] = @ - 1]

\* row[action] -= 1
decrement(row, a) == [row EXCEPT ![a] = @ - 1]

\* Object identity.  An object a caller holds is, relative to the batch a
\* call works on, either an object of its own ("copy"), which no write of
\* the call reaches, or the very object the call works on ("same").

\* Nothing shared.
Own == [states |-> "copy", dones |-> "copy"]

\* The deepcopy dropped: return self._state, dones.
step_returns_the_batch == [states |-> "same", dones |-> "same"]

\* return deepcopy(self._state), dones: the batch handed back is a copy; the
\* done vector is the tensor self._state.already_dones was just bound to.
step_returns == [states |-> "copy", dones |-> "same"]

\* states = deepcopy(states): the batch backward_step works on is a copy of
\* the caller's.
backward_step_works_on == "copy"

\* The attributes of the batch whose tensor step and backward_step write
\* into (the index assignment to .states); already_dones and the masks are
\* bound to new tensors, the tensors they were bound to left as they were.
written_in_place == {"states"}

\* The old flags forgotten: dones = actions == self.n_actions - 1.
dones_exit_only(e, st, actions) == [i \in Envs(e) |-> is_exit(e, actions[i])]

\* dones = self._state.already_dones | (actions == self.n_actions - 1)
dones_after(e, st, actions) ==
    [i \in Envs(e) |-> st.already_dones[i] \/ is_exit(e, actions[i])]

\* HyperGrid.step on the batch st the environment holds.  state: the
\* environment's batch when the call ends; ret, dones: what it returns.
step(e, st, actions) ==
    LET g == gather(st.masks, not_done(e, st), actions)
    IN  IF g.raised THEN
            [err |-> "RuntimeError", state |-> st, ret |-> NoBatch, dones |-> NoDones]
        ELSE IF ~all(g.out) THEN
            [err |-> "ValueError", state |-> st, ret |-> NoBatch, dones |-> NoDones]
        ELSE
            LET ds == dones_after(e, st, actions)
                st1 == [st EXCEPT !.already_dones = ds]
                not_done_states ==
                    [i \in {j \in Envs(e) : ~ds[j]} |->
                        increment(st1.states[i], actions[i])]
                st2 == [st1 EXCEPT !.states =
                          [i \in Envs(e) |->
                              IF ~ds[i] THEN not_done_states[i] ELSE @[i]]]
                st3 == update_masks(e, st2)
            IN  [err |-> "none", state |-> st3, ret |-> deepcopy(st3), dones |-> ds]

\* The arrival at the origin missed: dones = states.already_dones.
dones_unchanged(e, st) == st.already_dones

\* dones = states.already_dones | (states.states.sum(-1) == 0)
dones_after_backward(e, st) ==
    [i \in Envs(e) |-> st.already_dones[i] \/ sum(e, st.states[i]) = 0]

\* HyperGrid.backward_step on the caller's batch.  input: the caller's batch
\* when the call ends; ret, dones: what it returns.
backward_step(e, input, actions) ==
    LET st == deepcopy(input)
        rows == not_done(e, st)
        g == gather(st.backward_masks, rows, actions)
    IN  IF g.raised THEN
            [err |-> "RuntimeError", input |-> input, ret |-> NoBatch, dones |-> NoDones]
        ELSE IF ~all(g.out) THEN
            [err |-> "ValueError", input |-> input, ret |-> NoBatch, dones |-> NoDones]
        ELSE
            LET not_done_states ==
                    [i \in rows |-> decrement(st.states[i], actions[i])]
                st1 == [st EXCEPT !.states =
                          [i \in Envs(e) |->
                              IF i \in rows THEN not_done_states[i] ELSE @[i]]]
                ds == dones_after_backward(e, st1)
                st2 == [st1 EXCEPT !.already_dones = ds]
                st3 == update_masks(e, st2)
            IN  [err |-> "none",
                 input |-> IF backward_step_works_on = "same" THEN st3 ELSE input,
                 ret |-> st3, dones |-> ds]

\* Env.reset: the environment's batch becomes a fresh all-origin batch.
reset(e) == StatesBatch(e, zeros(e))

----------------------------------------------------------------------------
(* reward and get_states_indices                                           *)

\* Rewards are counted in tenths: R0 = 0.1, R1 = 0.5, R2 = 2.0.
R0 == 1
R1 == 5
R2 == 20

\* ax = abs(x / (height - 1) - 0.5), kept as the exact fraction num / den.
\* (The source computes it in float32; the three comparisons below come out
\* the same in float32 as in exact arithmetic for every height up to 10.)
ax(e, x) ==
    LET t == 2 * x - (e.height - 1)
    IN  [num |-> IF t < 0 THEN -t ELSE t, den |-> 2 * (e.height - 1)]

\* p/q < f and f < p/q for a fraction f.
lt_const(p, q, f) == p * f.den < f.num * q
gt_const(f, p, q) == f.num * q < p * f.den

RECURSIVE ProdUpTo(_, _)
\* v[0] * ... * v[k]
ProdUpTo(v, k) == IF k < 0 THEN 1 ELSE v[k] * ProdUpTo(v, k - 1)

\* The product mistaken for a maximum: one coordinate is enough.
prod_any(e, v) == IF \E d \in Dims(e) : v[d] # 0 THEN 1 ELSE 0

\* tensor.prod(-1) of a 0/1 tensor
prod(e, v) == ProdUpTo(v, e.ndim - 1)

\* A comparison's bool as the number the product multiplies.
bool(b) == IF b THEN 1 ELSE 0

\* HyperGrid.reward with reward_cos = False, per element of the batch.
reward(e, final_states) ==
    [i \in DOMAIN final_states |->
        LET a == [d \in Dims(e) |-> ax(e, final_states[i][d])]
        IN  R0
            + prod(e, [d \in Dims(e) |-> bool(lt_const(25, 100, a[d]))]) * R1
            + prod(e, [d \in Dims(e) |->
                          bool(lt_const(3, 10, a[d])) * bool(gt_const(a[d], 4, 10))]) * R2]

\* The exponents ascending: torch.arange(self.ndim).
canonical_base_ascending(e) == [d \in Dims(e) |-> e.height ^ d]

\* self.height ** torch.arange(self.ndim - 1, -1, -1)
canonical_base(e) == [d \in Dims(e) |-> e.height ^ (e.ndim - 1 - d)]

\* The sum taken over the whole tensor, .sum() for .sum(-1): every element
\* is given the batch's total.
get_states_indices_whole_batch(e, raw) ==
    [i \in DOMAIN raw |->
        SumUpTo([j \in DOMAIN raw |->
                    sum(e, [d \in Dims(e) |-> canonical_base(e)[d] * raw[j][d]])],
                Cardinality(DOMAIN raw) - 1)]

\* HyperGrid.get_states_indices, per element of the batch.
get_states_indices(e, raw) ==
    [i \in DOMAIN raw |->
        sum(e, [d \in Dims(e) |-> canonical_base(e)[d] * raw[i][d]])]

----------------------------------------------------------------------------
(* The drivers                                                             *)

\* The action values a sampler may hand in for one element: the n_actions
\* real ones and an out-of-range one.
ActionValues(e) == (0 .. e.n_actions - 1) \cup {BadIndex}
ActionVectors(e) == [Envs(e) -> ActionValues(e)]

NoCall == [op |-> "none", actions |-> <<>>, err |-> "none",
           before |-> NoBatch, after |-> NoBatch,
           ret |-> NoBatch, dones |-> NoDones, out |-> <<>>]

FreeEnvs == {HyperGrid(n, ndim, h) : n \in BatchShapes, h \in 2 .. MaxHeight}

\* Largest grid height the query driver constructs; 8 is the default height.
MaxQueryHeight == 8

\* Dimensions the query driver constructs.
QueryNdims == {1, 2, 3}

\* One-element batches in every dimension, and batches of every shape on the
\* free drivers' grids.
QueryEnvs ==
    {HyperGrid(1, d, h) : d \in QueryNdims, h \in 2 .. MaxQueryHeight} \cup FreeEnvs

\* The grids the trajectory drivers walk: one element on every height, two
\* elements on the smallest grid.
TrajectoryEnvs ==
    {HyperGrid(1, ndim, h) : h \in 2 .. MaxHeight} \cup {HyperGrid(2, ndim, 2)}

\* The longest forward trajectory leaves this many calls without a stop.
MaxMoves(e) == e.ndim * (e.height - 1)

\* Every batch a sequence of step calls can have returned: states anywhere
\* in the lattice, any done flags, masks as update_masks left them.
ReturnedBatches(e) ==
    {[StatesBatch(e, st) EXCEPT !.already_dones = ds] :
        st \in randint(e), ds \in [Envs(e) -> BOOLEAN]}

\* The demo's literal action tensors, by the line that passes them.
DemoActions ==
    [l306 |-> [i \in 0 .. 2 |-> <<0, 1, 1>>[i + 1]],
     l308 |-> [i \in 0 .. 2 |-> <<0, 2, 1>>[i + 1]],
     l310 |-> [i \in 0 .. 2 |-> <<1, 1, 2>>[i + 1]],
     l313 |-> [i \in 0 .. 2 |-> <<0, 1, 1>>[i + 1]],
     l324 |-> [i \in 0 .. 2 |-> <<1, 1, 2>>[i + 1]],
     l329 |-> [i \in 0 .. 2 |-> <<1, 1, 1>>[i + 1]],
     l333 |-> [i \in 0 .. 2 |-> <<0, BadIndex, 1>>[i + 1]],
     l337 |-> [i \in 0 .. 2 |-> <<0, BadIndex, OtherBadIndex>>[i + 1]]]

\* The line the demo goes to after the call of each line returns.
DemoNext ==
    [l306 |-> "l308", l308 |-> "l310", l310 |-> "l313", l313 |-> "l319",
     l319 |-> "l324", l324 |-> "l329", l329 |-> "l333", l333 |-> "l337",
     l337 |-> "l338", l338 |-> "done"]

InitForward ==
    /\ driver = "forward"
    /\ env \in FreeEnvs
    /\ _state = reset(env)
    /\ states = deepcopy(_state)
    /\ pc = "run"

InitBackward ==
    /\ driver = "backward"
    /\ env \in FreeEnvs
    /\ _state = reset(env)
    /\ states \in ReturnedBatches(env)
    /\ pc = "run"

InitRoundTrip ==
    /\ driver = "roundtrip"
    /\ env \in FreeEnvs
    /\ _state = reset(env)
    /\ states = deepcopy(_state)
    /\ pc = "forward"

\* env = HyperGrid(n_envs=3, height=3); env.reset()
InitMain ==
    /\ driver = "main"
    /\ env = HyperGrid(DemoNEnvs, ndim, DemoHeight)
    /\ _state = reset(env)
    /\ states = deepcopy(_state)
    /\ pc = "l306"

InitQuery ==
    /\ driver = "query"
    /\ env \in QueryEnvs
    /\ _state = reset(env)
    /\ states \in {StatesBatch(env, st) : st \in randint(env)}
    /\ pc = "run"

\* The forward trajectory driver: it walks one trajectory from reset, and
\* from some call on keeps what that call returned.
InitKeeper ==
    /\ driver = "keeper"
    /\ env \in TrajectoryEnvs
    /\ _state = reset(env)
    /\ states = deepcopy(_state)
    /\ pc = "keep"

\* The backward trajectory driver: it walks one trajectory back from a batch
\* it was handed.
InitUnwind ==
    /\ driver = "unwind"
    /\ env \in TrajectoryEnvs
    /\ _state = reset(env)
    /\ states \in ReturnedBatches(env)
    /\ pc = "run"

Init ==
    /\ \/ InitForward \/ InitBackward \/ InitRoundTrip \/ InitMain \/ InitQuery
       \/ InitKeeper \/ InitUnwind
    /\ dones = [i \in Envs(env) |-> FALSE]
    /\ call = NoCall
    /\ path = <<>>
    /\ held = Own
    /\ n_calls = 0
    /\ start = IF driver = "unwind" THEN states ELSE NoBatch

\* states, dones = env.step(actions), r being what step computes: the
\* driver's variables are assigned only if the call returns.
Step(actions, r) ==
    /\ _state' = r.state
    /\ states' = IF r.err = "none" THEN r.ret ELSE states
    /\ dones' = IF r.err = "none" THEN r.dones ELSE dones
    /\ call' = [NoCall EXCEPT !.op = "step", !.actions = actions, !.err = r.err,
                              !.before = _state, !.after = r.state,
                              !.ret = r.ret, !.dones = r.dones]
    /\ held' = IF r.err = "none" THEN step_returns ELSE held

\* states, dones = env.backward_step(states, actions), r being what
\* backward_step computes.
BackwardStep(actions, r) ==
    /\ states' = IF r.err = "none" THEN r.ret ELSE r.input
    /\ dones' = IF r.err = "none" THEN r.dones ELSE dones
    /\ call' = [NoCall EXCEPT !.op = "backward_step", !.actions = actions,
                              !.err = r.err, !.before = states, !.after = r.input,
                              !.ret = r.ret, !.dones = r.dones]
    /\ held' = IF r.err = "none" THEN Own ELSE held
    /\ UNCHANGED _state

\* states.zero_the_dones()
ZeroTheDones ==
    /\ states' = zero_the_dones(env, states)
    /\ call' = [NoCall EXCEPT !.op = "zero_the_dones", !.before = states,
                              !.after = states']
    /\ UNCHANGED <<_state, dones, held>>

ForwardStep ==
    /\ driver = "forward"
    /\ \E actions \in ActionVectors(env) :
         \E r \in {step(env, _state, actions)} : Step(actions, r)
    /\ UNCHANGED <<env, driver, pc, path, n_calls, start>>

ForwardReset ==
    /\ driver = "forward"
    /\ call.op = "step"
    /\ _state' = reset(env)
    /\ states' = deepcopy(_state')
    /\ call' = [NoCall EXCEPT !.op = "reset", !.before = _state, !.after = _state']
    /\ held' = Own
    /\ UNCHANGED <<env, dones, driver, pc, path, n_calls, start>>

BackwardBackwardStep ==
    /\ driver = "backward"
    /\ \E actions \in ActionVectors(env) :
         \E r \in {backward_step(env, states, actions)} : BackwardStep(actions, r)
    /\ UNCHANGED <<env, driver, pc, path, n_calls, start>>

BackwardZeroTheDones ==
    /\ driver = "backward"
    /\ ZeroTheDones
    /\ UNCHANGED <<env, driver, pc, path, n_calls, start>>

BackwardUpdateTheDones ==
    /\ driver = "backward"
    /\ states' = update_the_dones(env, states)
    /\ call' = [NoCall EXCEPT !.op = "update_the_dones", !.before = states,
                              !.after = states']
    /\ UNCHANGED <<env, _state, dones, driver, pc, path, held, n_calls, start>>

\* The action vectors that give every element a legal action other than stop.
LegalMoves(e, b) ==
    {actions \in [Envs(e) -> Dims(e)] : \A i \in Envs(e) : b.masks[i][actions[i]]}

\* The round-trip sampler walks forward, remembering each call ...
RoundTripForward ==
    /\ driver = "roundtrip"
    /\ pc = "forward"
    /\ \E actions \in LegalMoves(env, _state) :
         /\ \E r \in {step(env, _state, actions)} : Step(actions, r)
         /\ path' = Append(path, [actions |-> actions, from |-> _state.states])
    /\ UNCHANGED <<env, driver, pc, n_calls, start>>

\* ... and then undoes the calls, last one first, on the batch it was handed.
RoundTripBackward ==
    /\ driver = "roundtrip"
    /\ path # <<>>
    /\ call.err = "none"
    /\ \E r \in {backward_step(env, states, path[Len(path)].actions)} :
         BackwardStep(path[Len(path)].actions, r)
    /\ path' = SubSeq(path, 1, Len(path) - 1)
    /\ pc' = "backward"
    /\ UNCHANGED <<env, driver, n_calls, start>>

\* Lines 306-310: a call outside any try; what it raises ends the program.
MainStep ==
    /\ driver = "main"
    /\ pc \in {"l306", "l308", "l310"}
    /\ \E r \in {step(env, _state, DemoActions[pc])} :
         /\ Step(DemoActions[pc], r)
         /\ pc' = IF r.err = "none" THEN DemoNext[pc] ELSE "crashed"
    /\ UNCHANGED <<env, driver, path, n_calls, start>>

\* Lines 311-315: try: step, except ValueError.
MainTryStep ==
    /\ driver = "main"
    /\ pc = "l313"
    /\ \E r \in {step(env, _state, DemoActions[pc])} :
         /\ Step(DemoActions[pc], r)
         /\ pc' = IF r.err \in {"none", "ValueError"} THEN DemoNext[pc] ELSE "crashed"
    /\ UNCHANGED <<env, driver, path, n_calls, start>>

\* Line 319
MainZeroTheDones ==
    /\ driver = "main"
    /\ pc = "l319"
    /\ ZeroTheDones
    /\ pc' = DemoNext[pc]
    /\ UNCHANGED <<env, driver, path, n_calls, start>>

\* Lines 322-326: try: backward_step, except RuntimeError.
MainTryBackwardStep ==
    /\ driver = "main"
    /\ pc = "l324"
    /\ \E r \in {backward_step(env, states, DemoActions[pc])} :
         /\ BackwardStep(DemoActions[pc], r)
         /\ pc' = IF r.err \in {"none", "RuntimeError"} THEN DemoNext[pc] ELSE "crashed"
    /\ UNCHANGED <<env, driver, path, n_calls, start>>

\* Lines 328-337: calls outside any try.
MainBackwardStep ==
    /\ driver = "main"
    /\ pc \in {"l329", "l333", "l337"}
    /\ \E r \in {backward_step(env, states, DemoActions[pc])} :
         /\ BackwardStep(DemoActions[pc], r)
         /\ pc' = IF r.err = "none" THEN DemoNext[pc] ELSE "crashed"
    /\ UNCHANGED <<env, driver, path, n_calls, start>>

\* Lines 338-341: if all(dones) ... else raise ValueError.
MainCheck ==
    /\ driver = "main"
    /\ pc = "l338"
    /\ pc' = IF all(dones) THEN DemoNext[pc] ELSE "crashed"
    /\ call' = [NoCall EXCEPT !.op = "all"]
    /\ UNCHANGED <<env, _state, states, dones, driver, path, held, n_calls, start>>

\* env.reward(states)
QueryReward ==
    /\ driver = "query"
    /\ call' = [NoCall EXCEPT !.op = "reward", !.before = states, !.after = states,
                              !.out = reward(env, states.states)]
    /\ UNCHANGED <<env, _state, states, dones, driver, pc, path, held, n_calls, start>>

\* env.get_states_indices(states)
QueryGetStatesIndices ==
    /\ driver = "query"
    /\ call' = [NoCall EXCEPT !.op = "get_states_indices", !.before = states,
                              !.after = states,
                              !.out = get_states_indices(env, states.states)]
    /\ UNCHANGED <<env, _state, states, dones, driver, pc, path, held, n_calls, start>>

\* states, dones = env.step(actions), counted.
KeeperStep ==
    /\ driver = "keeper"
    /\ pc = "keep"
    /\ n_calls <= MaxMoves(env) + 1
    /\ \E actions \in ActionVectors(env) :
         \E r \in {step(env, _state, actions)} :
            /\ Step(actions, r)
            /\ n_calls' = IF r.err = "none" THEN n_calls + 1 ELSE n_calls
    /\ UNCHANGED <<env, driver, pc, path, start>>

\* env.step(actions) with the result dropped: `states` and `dones` go on
\* naming what the earlier call returned, and show this call's writes only
\* where they are the environment's own objects.
KeeperLaterStep ==
    /\ driver = "keeper"
    /\ n_calls <= MaxMoves(env) + 1
    /\ \E actions \in ActionVectors(env) :
         \E r \in {step(env, _state, actions)} :
            /\ _state' = r.state
            /\ states' = IF held.states = "same" THEN r.state ELSE states
            /\ dones' = IF held.dones = "same" /\ "already_dones" \in written_in_place
                         THEN r.state.already_dones ELSE dones
            /\ held' = IF r.err = "none" /\ "already_dones" \notin written_in_place
                        THEN [held EXCEPT !.dones = "copy"] ELSE held
            /\ call' = [NoCall EXCEPT !.op = "step", !.actions = actions,
                                      !.err = r.err, !.before = _state,
                                      !.after = r.state, !.ret = r.ret,
                                      !.dones = r.dones]
            /\ n_calls' = IF r.err = "none" THEN n_calls + 1 ELSE n_calls
    /\ pc' = "later"
    /\ UNCHANGED <<env, driver, path, start>>

\* states, dones = env.backward_step(states, actions), counted.
UnwindBackwardStep ==
    /\ driver = "unwind"
    /\ n_calls <= MaxMoves(env)
    /\ \E actions \in ActionVectors(env) :
         \E r \in {backward_step(env, states, actions)} :
            /\ BackwardStep(actions, r)
            /\ n_calls' = IF r.err = "none" THEN n_calls + 1 ELSE n_calls
    /\ UNCHANGED <<env, driver, pc, path, start>>

Next ==
    \/ ForwardStep
    \/ ForwardReset
    \/ BackwardBackwardStep
    \/ BackwardZeroTheDones
    \/ BackwardUpdateTheDones
    \/ RoundTripForward
    \/ RoundTripBackward
    \/ MainStep
    \/ MainTryStep
    \/ MainZeroTheDones
    \/ MainTryBackwardStep
    \/ MainBackwardStep
    \/ MainCheck
    \/ QueryReward
    \/ QueryGetStatesIndices
    \/ KeeperStep
    \/ KeeperLaterStep
    \/ UnwindBackwardStep

Spec == Init /\ [][Next]_vars

----------------------------------------------------------------------------
(* Properties                                                              *)

\* The last call was a step or a backward_step.
Stepped == call.op \in {"step", "backward_step"}

\* The mask the last call's actions are checked against.
MaskOf(b) == IF call.op = "step" THEN b.masks ELSE b.backward_masks

\* The mask has an entry for action a of element i, and it is true.
Permits(mask, i, a) == a \in DOMAIN mask[i] /\ mask[i][a]

\* Element i was not done when the last call began and its action was not
\* one its mask permitted.
Rejected(i) ==
    /\ ~call.before.already_dones[i]
    /\ ~Permits(MaskOf(call.before), i, call.actions[i])

\* The batch the last call worked on, as it is now: the environment's own
\* batch for step; for backward_step the returned batch or, if the call
\* raised, the caller's batch.
Current == IF call.op = "step" THEN _state ELSE states

Origin(e) == [d \in Dims(e) |-> 0]

\* C1: step and backward_step raise exactly when some element that is not
\* yet done is given an action its mask does not permit, and a call that
\* raises leaves the batch as it was (states, both masks, done flags) and
\* returns nothing.  With every such action inside the mask's columns the
\* error is ValueError; which error an index outside them raises is C5's
\* subject.
C1_FailsAtomically ==
    Stepped =>
        /\ (call.err # "none") <=> (\E i \in Envs(env) : Rejected(i))
        /\ (\A i \in Envs(env) :
               call.before.already_dones[i]
                  \/ call.actions[i] \in DOMAIN MaskOf(call.before)[i]) =>
             call.err \in {"none", "ValueError"}
        /\ call.err # "none" =>
             /\ Current = call.before
             /\ call.after = call.before
             /\ call.ret = NoBatch
             /\ call.dones = NoDones

\* A step raised although another element, not done, had a legal move: that
\* element's coordinate is where a partial increment would show.
C1_Witness ==
    /\ call.op = "step"
    /\ call.err # "none"
    /\ \E i, j \in Envs(env) :
         /\ Rejected(i)
         /\ ~call.before.already_dones[j]
         /\ call.actions[j] \in Dims(env)
         /\ Permits(call.before.masks, j, call.actions[j])

\* The batch of the demo after its three forward calls.
DemoStates == [i \in 0 .. 2 |-> [d \in 0 .. 1 |-> <<<<2, 1>>, <<0, 1>>, <<0, 2>>>>[i + 1][d + 1]]]
DemoDones == [i \in 0 .. 2 |-> <<FALSE, TRUE, TRUE>>[i + 1]]

\* C2: after a step that returned, each element that was not done either
\* stopped (action ndim: coordinates unchanged, now done) or moved (the
\* action's coordinate one higher, the others unchanged, still not done);
\* the returned done vector is old-done OR action = stop; and the demo's three
\* calls give [[2,1],[0,1],[0,2]], done [F,T,T], the fourth being rejected.
C2_StepEffect ==
    /\ (call.op = "step" /\ call.err = "none") =>
         /\ \A i \in Envs(env) :
              ~call.before.already_dones[i] =>
                 IF call.actions[i] = env.ndim
                 THEN /\ _state.states[i] = call.before.states[i]
                      /\ _state.already_dones[i]
                 ELSE /\ call.actions[i] \in Dims(env)
                      /\ \A d \in Dims(env) :
                           _state.states[i][d] =
                              call.before.states[i][d]
                                 + (IF d = call.actions[i] THEN 1 ELSE 0)
                      /\ ~_state.already_dones[i]
         /\ call.dones = [i \in Envs(env) |->
                             call.before.already_dones[i] \/ call.actions[i] = env.ndim]
         /\ call.ret = _state
         /\ call.ret.already_dones = call.dones
    /\ (driver = "main" /\ pc = "l313") =>
         /\ _state.states = DemoStates
         /\ states.states = DemoStates
         /\ dones = DemoDones
    /\ (driver = "main" /\ pc = "l319") =>
         /\ call.err # "none"
         /\ _state.states = DemoStates

\* One step in which an element moves, another stops and a third was done.
C2_Witness ==
    /\ call.op = "step"
    /\ call.err = "none"
    /\ \E i, j, k \in Envs(env) :
         /\ ~call.before.already_dones[i] /\ call.actions[i] \in Dims(env)
         /\ ~call.before.already_dones[j] /\ call.actions[j] = env.ndim
         /\ call.before.already_dones[k]

\* C3: after a backward_step that returned, each element that was not done
\* has the action's coordinate one lower and the others unchanged, and an
\* element is done iff it was done before or its state is now the origin.
C3_BackwardStepEffect ==
    (call.op = "backward_step" /\ call.err = "none") =>
        /\ \A i \in Envs(env) :
             /\ ~call.before.already_dones[i] =>
                  /\ call.actions[i] \in Dims(env)
                  /\ \A d \in Dims(env) :
                       states.states[i][d] =
                          call.before.states[i][d]
                             - (IF d = call.actions[i] THEN 1 ELSE 0)
             /\ states.already_dones[i] <=>
                  (call.before.already_dones[i] \/ states.states[i] = Origin(env))
        /\ dones = states.already_dones
        /\ call.ret = states

\* One backward_step that brings an element to the origin while another
\* element, away from the origin, stays not done.
C3_Witness ==
    /\ call.op = "backward_step"
    /\ call.err = "none"
    /\ \E i, j \in Envs(env) :
         /\ ~call.before.already_dones[i] /\ states.already_dones[i]
         /\ ~states.already_dones[j] /\ states.states[j] # Origin(env)

\* C4: an element that is done when step or backward_step is called may be
\* given any action value: the call raises or returns just as it does with
\* any other value for that element, and the element's state vector and
\* done flag are afterwards what they were.
C4_DoneElementsIgnored ==
    Stepped =>
        \A i \in Envs(env) :
            call.before.already_dones[i] =>
                /\ Current.states[i] = call.before.states[i]
                /\ Current.already_dones[i]
                /\ \A v \in ActionValues(env) :
                     LET other == [call.actions EXCEPT ![i] = v]
                     IN  call.err =
                            IF call.op = "step"
                            THEN step(env, call.before, other).err
                            ELSE backward_step(env, call.before, other).err
                /\ (\A j \in Envs(env) : call.before.already_dones[j]) =>
                       call.err = "none"

\* A step that returned although a done element was given index 43, while
\* another element moved.
C4_Witness ==
    /\ call.op = "step"
    /\ call.err = "none"
    /\ \E i, j \in Envs(env) :
         /\ call.before.already_dones[i] /\ call.actions[i] = BadIndex
         /\ ~call.before.already_dones[j] /\ call.actions[j] \in Dims(env)

\* C5, as claimed: every call rejected for an action index in 0..ndim, in
\* forward and in backward mode alike, raises the one error the code raises
\* for invalid actions, ValueError("Actions are not valid").
C5_SingleErrorKind ==
    (/\ Stepped
     /\ call.err # "none"
     /\ \A i \in Envs(env) : call.actions[i] \in 0 .. env.ndim) =>
        call.err = "ValueError"

InRange(e, b) ==
    \A i \in Envs(e) : \A d \in Dims(e) : b.states[i][d] \in 0 .. e.height - 1

\* C6: whatever step calls are made from an all-origin batch and whatever
\* backward_step calls from a batch inside the lattice, every coordinate of
\* every element stays in [0, height - 1].
C6_CoordinatesInRange ==
    /\ InRange(env, _state)
    /\ InRange(env, states)

\* A step call of the forward sampler has just raised the first coordinate
\* of an element to height - 1, the largest value the lattice has.
C6_Witness ==
    /\ driver = "forward"
    /\ call.op = "step"
    /\ call.err = "none"
    /\ \E i \in Envs(env) :
         /\ call.actions[i] = 0
         /\ ~call.before.already_dones[i]
         /\ _state.states[i][0] = env.height - 1

MasksMatch(e, b) ==
    \A i \in Envs(e) :
        /\ DOMAIN b.masks[i] = 0 .. e.ndim
        /\ DOMAIN b.backward_masks[i] = 0 .. e.ndim - 1
        /\ b.masks[i][e.ndim]
        /\ \A d \in Dims(e) :
             /\ b.masks[i][d] <=> b.states[i][d] < e.height - 1
             /\ b.backward_masks[i][d] <=> b.states[i][d] > 0

\* C7: after every step and backward_step, for every element, done or not:
\* forward mask column d is true iff state[d] < height - 1, the stop column
\* is true, backward mask column d is true iff state[d] > 0, and the masks
\* have ndim + 1 and ndim columns.
C7_MasksFollowStates ==
    Stepped =>
        /\ MasksMatch(env, _state)
        /\ MasksMatch(env, states)

\* A call has just changed a state so that a forward mask entry went from
\* true to false and a backward mask entry from false to true.
C7_Witness ==
    /\ call.op = "step"
    /\ call.err = "none"
    /\ \E i \in Envs(env) : \E d \in Dims(env) :
         /\ call.before.masks[i][d] /\ ~_state.masks[i][d]
         /\ ~call.before.backward_masks[i][d] /\ _state.backward_masks[i][d]

\* C8: when the forward calls a1..ak (legal, never stop) are undone by
\* backward_step with ak..a1, every backward call returns, it lands on the
\* states the matching forward call started from, and done is false after
\* each call but the last, which ends at the origin with done true.
C8_RoundTrip ==
    [][(driver = "roundtrip" /\ call'.op = "backward_step") =>
          /\ call'.err = "none"
          /\ states'.states = path[Len(path)].from
          /\ \A i \in Envs(env) :
               /\ dones'[i] <=> Len(path) = 1
               /\ states'.already_dones[i] <=> Len(path) = 1
               /\ Len(path) = 1 => states'.states[i] = Origin(env)]_vars

\* The whole way back from the far corner of the grid has been walked.
C8_Witness ==
    /\ driver = "roundtrip"
    /\ call.op = "backward_step"
    /\ call.err = "none"
    /\ path = <<>>
    /\ \A i \in Envs(env) :
         /\ \A d \in Dims(env) : _state.states[i][d] = env.height - 1
         /\ states.states[i] = Origin(env)
         /\ dones[i]

RECURSIVE Digits(_, _, _)
\* v[0..k] read as a number in base height, v[0] most significant.
Digits(e, v, k) == IF k < 0 THEN 0 ELSE Digits(e, v, k - 1) * e.height + v[k]

Lattice(e) == [Dims(e) -> 0 .. e.height - 1]

\* C9: get_states_indices gives each state vector its value as a base-height
\* number, coordinate 0 most significant; the value lies in
\* [0, height**ndim), and over the whole lattice the mapping is one-to-one
\* and onto [0, height**ndim).
C9_IndexIsMixedRadix ==
    call.op = "get_states_indices" =>
        /\ \A i \in Envs(env) :
             /\ call.out[i] = Digits(env, states.states[i], env.ndim - 1)
             /\ call.out[i] \in 0 .. env.height ^ env.ndim - 1
        /\ LET image == {get_states_indices(env, [i \in {0} |-> s])[0] : s \in Lattice(env)}
           IN  /\ image = 0 .. env.height ^ env.ndim - 1
               /\ Cardinality(image) = Cardinality(Lattice(env))
               /\ env.n_states = Cardinality(image)

\* The index of a state whose coordinates differ, in three dimensions.
C9_Witness ==
    /\ call.op = "get_states_indices"
    /\ env.ndim = 3
    /\ states.states[0][0] < states.states[0][1]
    /\ states.states[0][1] < states.states[0][2]
    /\ call.out[0] > 0

Abs(x) == IF x < 0 THEN -x ELSE x

\* |x / (height - 1) - 0.5| > 0.25, cleared of fractions.
Outer(e, x) == 4 * Abs(2 * x - (e.height - 1)) > 2 * (e.height - 1)

\* 0.3 < |x / (height - 1) - 0.5| < 0.4, cleared of fractions.
Shell(e, x) ==
    /\ 3 * 2 * (e.height - 1) < 10 * Abs(2 * x - (e.height - 1))
    /\ 10 * Abs(2 * x - (e.height - 1)) < 4 * 2 * (e.height - 1)

Query(raw) ==
    IF call.op = "reward" THEN reward(env, raw) ELSE get_states_indices(env, raw)

\* C11: reward and get_states_indices leave the batch they are given as it
\* was (states, masks, done flags); the value they return for an element is
\* the one they return for that element's state vector alone, so that a
\* permuted batch gives the result permuted the same way; and a second call
\* on the same batch returns the same result.
C11_QueriesAreElementwise ==
    call.op \in {"reward", "get_states_indices"} =>
        /\ states = call.before
        /\ call.after = call.before
        /\ \A i \in Envs(env) :
             call.out[i] = Query([j \in {0} |-> states.states[i]])[0]
        /\ \A p \in Permutations(Envs(env)) :
             Query([i \in Envs(env) |-> states.states[p[i]]])
                = [i \in Envs(env) |-> call.out[p[i]]]
        /\ Query(states.states) = call.out

\* A query on a batch of two elements whose values differ, so that swapping
\* the elements shows in the result.
C11_Witness ==
    /\ call.op \in {"reward", "get_states_indices"}
    /\ env.n_envs = 2
    /\ call.out[0] # call.out[1]
    /\ \E p \in Permutations(Envs(env)) : p[0] = 1

\* C12: what a call hands back shares nothing with the batch it was computed
\* from that a later call writes: backward_step leaves the batch the caller
\* passed in as it was (states, masks, done flags), and the batch and done
\* vector an earlier step returned are the same after every later step call
\* on the environment.
C12_NoAliasing ==
    [][/\ call'.op = "backward_step" => call'.after = call'.before
       /\ (driver = "keeper" /\ pc' = "later") =>
             /\ states' = states
             /\ dones' = dones]_vars

\* A later step has moved the environment's batch and changed its done
\* flags, and what the earlier call returned differs from it in both.
C12_Witness ==
    /\ driver = "keeper"
    /\ pc = "later"
    /\ n_calls >= 2
    /\ call.op = "step"
    /\ call.err = "none"
    /\ states.states # _state.states
    /\ dones # _state.already_dones
    /\ \E i \in Envs(env) : dones[i]

\* The state vectors one step call that returns takes an element at s to,
\* the element not done and its masks those of s: one per action the call
\* accepts (stop leaves it at s).
Successors(e, s) ==
    LET e1 == HyperGrid(1, e.ndim, e.height)
        b == StatesBatch(e1, [i \in {0} |-> s])
    IN  {r.state.states[0] :
            r \in {r \in {step(e1, b, [i \in {0} |-> a]) : a \in ActionValues(e1)} :
                      r.err = "none"}}

RECURSIVE Closure(_, _, _)
\* S together with everything reached from the cells of fresh, S holding
\* already what is reached from its own cells other than those of fresh.
Closure(e, S, fresh) ==
    IF fresh \subseteq S THEN S
    ELSE Closure(e, S \cup fresh, UNION {Successors(e, s) : s \in fresh \ S})

\* The state vectors sequences of step calls that return reach from the
\* origin.
Reachable(e) == Closure(e, {}, {Origin(e)})

\* C13: the state vectors reached from the all-origin batch by step calls
\* that return are exactly the lattice [0, height-1]^ndim: each of its
\* height**ndim = n_states cells is reached, and whatever calls a forward
\* sampler makes, every element is at a reached cell of the lattice.
C13_ReachableIsLattice ==
    driver \in {"forward", "keeper"} =>
        \A cells \in {Reachable(env)} :
            /\ cells = Lattice(env)
            /\ Cardinality(cells) = env.height ^ env.ndim
            /\ Cardinality(cells) = env.n_states
            /\ \A i \in Envs(env) : _state.states[i] \in cells

\* A forward sampler has brought an element to the far corner, the cell the
\* most increments away from the origin.
C13_Witness ==
    /\ driver = "forward"
    /\ call.op = "step"
    /\ call.err = "none"
    /\ env.height = MaxHeight
    /\ \E i \in Envs(env) :
         /\ ~call.before.already_dones[i]
         /\ \A d \in Dims(env) : _state.states[i][d] = env.height - 1
         /\ _state.states[i] \in Reachable(env)

\* C14: across step calls with no reset in between, an element that is done
\* is done after every later call, returned or raised, and its state vector
\* stays the one it had when it became done: each step call leaves a done
\* element's flag and state as they were, and whatever later calls are made,
\* an element done in the batch an earlier call returned is done in the
\* environment's batch and at the same state.
C14_DoneIsFrozen ==
    [][/\ call'.op = "step" =>
             \A i \in Envs(env) :
                 _state.already_dones[i] =>
                     /\ _state'.already_dones[i]
                     /\ _state'.states[i] = _state.states[i]
       /\ driver = "keeper" =>
             \A i \in Envs(env) :
                 /\ states'.already_dones[i] =>
                      /\ _state'.already_dones[i]
                      /\ _state'.states[i] = states'.states[i]
                 /\ dones'[i] => _state'.already_dones[i]]_vars

\* An element was done when the kept batch was returned; a later call that
\* returned gave it a move action all the same, while another element has
\* moved on since.
C14_Witness ==
    /\ driver = "keeper"
    /\ pc = "later"
    /\ call.op = "step"
    /\ call.err = "none"
    /\ \E i, j \in Envs(env) :
         /\ states.already_dones[i]
         /\ call.actions[i] \in Dims(env)
         /\ _state.masks[i][call.actions[i]]
         /\ ~states.already_dones[j]
         /\ _state.states[j] # states.states[j]

\* The actions other than stop that element i's forward mask permits.
LegalIncrements(e, b, i) == {a \in Dims(e) : b.masks[i][a]}

\* C15: on a trajectory from the all-origin batch, an element that is not
\* done always has a legal action, stop; it has taken as many actions other
\* than stop as calls have returned, which is its coordinate sum and at most
\* ndim * (height - 1); when it has taken that many, stop is the only action
\* its mask permits; and once ndim * (height - 1) + 1 calls have returned,
\* every element is done.
C15_ForwardTerminates ==
    driver = "keeper" =>
        /\ \A i \in Envs(env) :
             ~_state.already_dones[i] =>
                 /\ _state.masks[i][env.ndim]
                 /\ step(env, _state,
                         [j \in Envs(env) |->
                             IF _state.already_dones[j] THEN BadIndex
                             ELSE env.ndim]).err = "none"
                 /\ sum(env, _state.states[i]) = n_calls
                 /\ n_calls <= env.ndim * (env.height - 1)
                 /\ n_calls = env.ndim * (env.height - 1) =>
                       LegalIncrements(env, _state, i) = {}
                 /\ n_calls < env.ndim * (env.height - 1) =>
                       LegalIncrements(env, _state, i) # {}
        /\ \A i \in Envs(env) :
             sum(env, _state.states[i]) <= env.ndim * (env.height - 1)
        /\ n_calls >= env.ndim * (env.height - 1) + 1 =>
              \A i \in Envs(env) : _state.already_dones[i]

\* The longest trajectory: an element has taken ndim * (height - 1) moves
\* and the call that stops it, the last one the bound allows, has returned.
C15_Witness ==
    /\ driver = "keeper"
    /\ env.height = MaxHeight
    /\ n_calls = env.ndim * (env.height - 1) + 1
    /\ call.op = "step"
    /\ call.err = "none"
    /\ \E i \in Envs(env) :
         /\ ~call.before.already_dones[i]
         /\ call.actions[i] = env.ndim
         /\ sum(env, _state.states[i]) = env.ndim * (env.height - 1)
         /\ _state.already_dones[i]

\* The backward actions element i's backward mask permits.
LegalDecrements(e, b, i) == {a \in Dims(e) : b.backward_masks[i][a]}

\* C16: on a backward trajectory from a batch inside the lattice, each
\* backward_step that returns lowers the coordinate sum of every element
\* that was not done by exactly 1; so an element that started not done with
\* coordinate sum k > 0 is, after fewer than k returned calls, not done, at
\* sum k less the calls, and with a legal backward action, and after k
\* returned calls done and at the origin.
C16_BackwardTerminates ==
    driver = "unwind" =>
        /\ (call.op = "backward_step" /\ call.err = "none") =>
              \A i \in Envs(env) :
                  ~call.before.already_dones[i] =>
                      sum(env, states.states[i])
                         = sum(env, call.before.states[i]) - 1
        /\ \A i \in Envs(env) :
             (~start.already_dones[i] /\ sum(env, start.states[i]) > 0) =>
                 IF n_calls < sum(env, start.states[i])
                 THEN /\ ~states.already_dones[i]
                      /\ n_calls > 0 => ~dones[i]
                      /\ sum(env, states.states[i])
                            = sum(env, start.states[i]) - n_calls
                      /\ LegalDecrements(env, states, i) # {}
                 ELSE /\ states.already_dones[i]
                      /\ dones[i]
                      /\ states.states[i] = Origin(env)

\* Two elements that started one and two moves from the origin: the first
\* was done after one call, the second has just become done with the second.
C16_Witness ==
    /\ driver = "unwind"
    /\ n_calls = 2
    /\ call.op = "backward_step"
    /\ call.err = "none"
    /\ \E i, j \in Envs(env) :
         /\ ~start.already_dones[i] /\ sum(env, start.states[i]) = 1
         /\ ~start.already_dones[j] /\ sum(env, start.states[j]) = 2
         /\ call.before.already_dones[i]
         /\ ~call.before.already_dones[j]
         /\ states.already_dones[j]

\* The batch holds an element that is at the origin and not done.
Stuck(e, b) == \E i \in Envs(e) : b.states[i] = Origin(e) /\ ~b.already_dones[i]

\* C17: a batch holding an element at the origin whose done flag is false,
\* as zero_the_dones leaves any batch with an element at the origin, can
\* never be stepped backward: backward_step raises on it whatever the
\* action vector, and leaves it as it was, so that no call on it ever
\* returns.  After update_the_dones no element is at the origin and not
\* done, and some action vector makes backward_step return.
C17_OriginNotDoneIsStuck ==
    /\ (call.op = "backward_step" /\ Stuck(env, call.before)) =>
          /\ call.err # "none"
          /\ states = call.before
          /\ Stuck(env, states)
    /\ (driver \in {"backward", "unwind"} /\ Stuck(env, states)) =>
          \A actions \in ActionVectors(env) :
              backward_step(env, states, actions).err # "none"
    /\ (driver = "unwind" /\ Stuck(env, start)) =>
          /\ n_calls = 0
          /\ states = start
    /\ (call.op = "zero_the_dones"
          /\ \E i \in Envs(env) : states.states[i] = Origin(env)) =>
          Stuck(env, states)
    /\ call.op = "update_the_dones" =>
          /\ ~Stuck(env, states)
          /\ \E actions \in ActionVectors(env) :
                backward_step(env, states, actions).err = "none"

\* A backward_step has raised on a batch with an element at the origin not
\* done, every action being a backward action and the other element's a
\* legal one.
C17_Witness ==
    /\ driver = "backward"
    /\ call.op = "backward_step"
    /\ call.err # "none"
    /\ \A i \in Envs(env) : call.actions[i] \in Dims(env)
    /\ \E i, j \in Envs(env) :
         /\ call.before.states[i] = Origin(env)
         /\ ~call.before.already_dones[i]
         /\ ~call.before.already_dones[j]
         /\ call.before.backward_masks[j][call.actions[j]]

====
